---------------------------- MODULE Spec2Model ----------------------------
(***************************************************************************)
(* Model of the tasties_app recipe application: the record store declared  *)
(* in tasties_app/models.py (Category, Recipe, Ingredient, Comment,        *)
(* Rating), the guarded in-place updates Recipe.edit_recipe and            *)
(* Rating.update_rating, and the views create_recipe and recipes of        *)
(* tasties_app/views.py.                                                   *)
(*                                                                         *)
(* The store runs in Django's default autocommit mode: every save() and    *)
(* every query of a view is one atomic step of the store, and the steps of *)
(* concurrent requests interleave.                                         *)
(***************************************************************************)
EXTENDS Integers, Sequences, FiniteSets, TLC

VARIABLES
    recipes,            \* table Recipe: set of rows
    ingredients,        \* table Ingredient: set of rows
    comments,           \* table Comment: set of rows
    ratings,            \* table Rating: set of rows
    categories,         \* table Category: set of category_name values
    recipe_categories,  \* join table of Recipe.categories: <<recipe id, category_name>>
    seq,                \* the auto-increment primary key counters, one per table
    req,                \* the create_recipe POST requests in flight
    inst,               \* a Recipe instance held in memory by a caller of edit_recipe
    rinst,              \* a Rating instance held in memory by a caller of update_rating
    resp                \* what the last model-method call or listing request returned

vars == <<recipes, ingredients, comments, ratings, categories,
          recipe_categories, seq, req, inst, rinst, resp>>

db == <<recipes, ingredients, comments, ratings, categories, recipe_categories, seq>>

-----------------------------------------------------------------------------
(* Bounds of the model. *)

NumRequests == 2
MaxIngredients == 2
MaxComments == 1
MaxRatings == 4
MaxTags == 2

Requests == 1..NumRequests

(* Program constants. *)

TitleMaxLength == 64
DescriptionMaxLength == 512
DirectionsMaxLength == 65536
MinMinutes == 1
MinRating == 1
MaxRating == 5
SeedRatingValue == 5
MinIngredientForms == 1
IngredientDescriptionMaxLength == 64

-----------------------------------------------------------------------------
(* Input domains. *)

\* Python values carry their type: edit_recipe and update_rating test it.
PyInt(n) == [type |-> "int", val |-> n]
PyFloat(n) == [type |-> "float", val |-> n]
PyStr(n) == [type |-> "str", val |-> n]

\* Ingredient amounts are counted in hundredths: the form field has
\* decimal_places=2.
IngredientCandidates ==
    { [amount |-> 50, measurement_unit |-> "Whole", description |-> "flour"],
      [amount |-> 0,  measurement_unit |-> "Whole", description |-> "flour"] }

RECURSIVE SeqsUpTo(_, _)
SeqsUpTo(S, n) ==
    IF n = 0 THEN { <<>> }
    ELSE LET shorter == SeqsUpTo(S, n - 1)
         IN shorter \cup { Append(s, e) : s \in shorter, e \in S }

\* 65 characters, one more than Recipe.title allows.
LongTitle == "Pancakes with maple syrup, butter, berries and whipped cream, too"

CreateForms ==
    [ title : {"", "Pancakes", "Waffles", LongTitle},
      description : {"fluffy"},
      directions : {"mix"},
      minutes_to_make : {0, 10},
      recipe_picture : {"p0"},
      ingredients : SeqsUpTo(IngredientCandidates, MaxIngredients) ]

NoForm ==
    [ title |-> "", description |-> "", directions |-> "", minutes_to_make |-> 0,
      recipe_picture |-> "", ingredients |-> <<>> ]

IdleRequest ==
    [ pc |-> "idle", form |-> NoForm, rid |-> 0, k |-> 0, err |-> "" ]

\* request.user: the authenticated user a request comes from.
UserOf(r) == IF r % 2 = 1 THEN "alice" ELSE "bob"

NoInst == [ none |-> TRUE ]
NoResp == [ op |-> "none" ]

-----------------------------------------------------------------------------
(* The record store. *)

Ids(table) == { row.id : row \in table }

\* Recipe.title is declared unique=True: the store rejects a row whose title
\* another row (one with a different primary key) already has.
UniqueTitleOff(table, id, title) == TRUE
UniqueTitle(table, id, title) ==
    \A row \in table : row.id # id => row.title # title

\* recipe_id = ForeignKey(Recipe): the store rejects a child row whose recipe
\* is not in the Recipe table.
ForeignKeyOk(table, recipe_id) == recipe_id \in Ids(table)

\* on_delete=models.CASCADE: deleting a recipe deletes the rows of a child
\* table that reference it.
NoCascade(table, recipe_id) == table
Cascade(table, recipe_id) == { row \in table : row.recipe_id # recipe_id }

-----------------------------------------------------------------------------
(* Form validation of create_recipe. *)

\* CreateRecipeForm.is_valid(): the validators of the Recipe fields, and the
\* uniqueness query on title (the instance is unsaved, so every row counts).
RecipeFormValid(form, table) ==
    /\ Len(form.title) >= 1
    /\ Len(form.title) <= TitleMaxLength
    /\ \A row \in table : row.title # form.title
    /\ Len(form.description) >= 1
    /\ Len(form.description) <= DescriptionMaxLength
    /\ Len(form.directions) >= 1
    /\ Len(form.directions) <= DirectionsMaxLength
    /\ form.minutes_to_make >= MinMinutes

\* One form of the ingredient formset: the validators of the Ingredient
\* fields. MinValueValidator(0.0001) on a value of two decimal places admits
\* one hundredth and more.
IngredientValid(i) ==
    /\ i.amount >= 1
    /\ Len(i.description) >= 1
    /\ Len(i.description) <= IngredientDescriptionMaxLength

\* IngredientFormSet.is_valid() with min_num=1, validate_min=True.
FormsetValidNoMin(forms) ==
    \A n \in 1..Len(forms) : IngredientValid(forms[n])
FormsetValid(forms) ==
    /\ Len(forms) >= MinIngredientForms
    /\ \A n \in 1..Len(forms) : IngredientValid(forms[n])

\* rating = Rating(author_id=recipe.author_id, recipe_id=recipe, rating=5)
SeedRatingWrong(recipe) ==
    [ author_id |-> recipe.author_id, recipe_id |-> recipe.id, rating |-> 1 ]
SeedRating(recipe) ==
    [ author_id |-> recipe.author_id, recipe_id |-> recipe.id,
      rating |-> SeedRatingValue ]

-----------------------------------------------------------------------------
(* views.create_recipe, POST branch. *)

RecipeOfForm(form, user, id) ==
    [ id |-> id, title |-> form.title, author_id |-> user,
      description |-> form.description, directions |-> form.directions,
      minutes_to_make |-> form.minutes_to_make,
      recipe_picture |-> form.recipe_picture ]

\* Lines 119-125 and 130-136: bind the forms and validate them.  Nothing is
\* written: recipe_form.save(commit=False) only builds the instance.
Validate(r, forms) ==
    /\ req[r].pc = "idle"
    /\ \E f \in forms :
          LET ok == RecipeFormValid(f, recipes) /\ FormsetValid(f.ingredients)
          IN /\ req' = [req EXCEPT ![r] =
                         IF ok THEN [ pc |-> "save_recipe", form |-> f,
                                      rid |-> 0, k |-> 0, err |-> "" ]
                               ELSE [ IdleRequest EXCEPT !.pc = "rejected" ]]
             /\ resp' = [ op |-> "create_recipe", r |-> r, form |-> f,
                          outcome |-> IF ok THEN "valid" ELSE "rejected" ]
    /\ UNCHANGED <<db, inst, rinst>>

\* What a step of the saving part answers: the redirect of line 129 when it
\* completes the request, the error page when a save raised, and nothing
\* while the request goes on.
StepResponse(r, pc) ==
    IF pc \in {"done", "error"}
    THEN [ op |-> "create_recipe", r |-> r, form |-> req[r].form, outcome |-> pc ]
    ELSE NoResp

\* Line 126: recipe = recipe_form.save(), an INSERT.
SaveRecipe(r) ==
    /\ req[r].pc = "save_recipe"
    /\ IF UniqueTitle(recipes, 0, req[r].form.title)
       THEN /\ recipes' = recipes \cup
                            { RecipeOfForm(req[r].form, UserOf(r), seq.recipe) }
            /\ seq' = [seq EXCEPT !.recipe = @ + 1]
            /\ req' = [req EXCEPT ![r].pc = IF Len(req[r].form.ingredients) = 0
                                            THEN "save_rating"
                                            ELSE "save_ingredients",
                                  ![r].rid = seq.recipe]
       ELSE /\ req' = [req EXCEPT ![r].pc = "error", ![r].err = "IntegrityError"]
            /\ UNCHANGED <<recipes, seq>>
    /\ UNCHANGED <<ingredients, comments, ratings, categories, recipe_categories,
                   inst, rinst>>
    /\ resp' = StepResponse(r, req'[r].pc)

\* Line 127: ingredient_formset.save() saves the forms' instances in order,
\* one INSERT each.
SaveIngredient(r) ==
    /\ req[r].pc = "save_ingredients"
    /\ LET n == req[r].k + 1
           f == req[r].form.ingredients[n]
       IN IF ForeignKeyOk(recipes, req[r].rid)
          THEN /\ ingredients' = ingredients \cup
                     { [ id |-> seq.ingredient, recipe_id |-> req[r].rid,
                         amount |-> f.amount,
                         measurement_unit |-> f.measurement_unit,
                         description |-> f.description ] }
               /\ seq' = [seq EXCEPT !.ingredient = @ + 1]
               /\ req' = [req EXCEPT ![r].k = n,
                                     ![r].pc = IF n = Len(req[r].form.ingredients)
                                               THEN "save_rating"
                                               ELSE "save_ingredients"]
          ELSE /\ req' = [req EXCEPT ![r].pc = "error", ![r].err = "IntegrityError"]
               /\ UNCHANGED <<ingredients, seq>>
    /\ UNCHANGED <<recipes, comments, ratings, categories, recipe_categories,
                   inst, rinst>>
    /\ resp' = StepResponse(r, req'[r].pc)

\* Lines 128-129: rating.save(), then the redirect to the recipe's page.
SaveSeedRating(r) ==
    /\ req[r].pc = "save_rating"
    /\ LET recipe == RecipeOfForm(req[r].form, UserOf(r), req[r].rid)
       IN IF ForeignKeyOk(recipes, req[r].rid)
          THEN /\ ratings' = ratings \cup
                     { [ id |-> seq.rating ] @@ SeedRating(recipe) }
               /\ seq' = [seq EXCEPT !.rating = @ + 1]
               /\ req' = [req EXCEPT ![r].pc = "done"]
          ELSE /\ req' = [req EXCEPT ![r].pc = "error", ![r].err = "IntegrityError"]
               /\ UNCHANGED <<ratings, seq>>
    /\ UNCHANGED <<recipes, ingredients, comments, categories, recipe_categories,
                   inst, rinst>>
    /\ resp' = StepResponse(r, req'[r].pc)

\* Lines 126-128 run outside any transaction and catch nothing: when the
\* store fails a save (connection lost, disk full), the exception ends the
\* request and the saves already committed stay.
PersistenceFails(r) ==
    /\ req[r].pc \in {"save_recipe", "save_ingredients", "save_rating"}
    /\ req' = [req EXCEPT ![r].pc = "error", ![r].err = "OperationalError"]
    /\ resp' = StepResponse(r, "error")
    /\ UNCHANGED <<db, inst, rinst>>

-----------------------------------------------------------------------------
(* Operations of the store on the models. *)

\* Recipe.delete(): the row, its join rows, and by on_delete=CASCADE the
\* rows of Ingredient, Comment and Rating that reference it.  As delete()
\* does, the response counts the rows deleted from each table.
DeleteRecipe(id) ==
    /\ id \in Ids(recipes)
    /\ recipes' = { row \in recipes : row.id # id }
    /\ ingredients' = Cascade(ingredients, id)
    /\ comments' = Cascade(comments, id)
    /\ ratings' = Cascade(ratings, id)
    /\ recipe_categories' = { t \in recipe_categories : t[1] # id }
    /\ resp' = [ op |-> "delete", id |-> id,
                 deleted |-> [ Ingredient |-> Cardinality(ingredients \ ingredients'),
                               Comment |-> Cardinality(comments \ comments'),
                               Rating |-> Cardinality(ratings \ ratings') ] ]
    /\ UNCHANGED <<categories, seq, req, inst, rinst>>

\* Comment(author_id=..., recipe_id=..., comment_text=...).save()
AddComment(u, id, text) ==
    /\ Cardinality(comments) < MaxComments
    /\ ForeignKeyOk(recipes, id)
    /\ comments' = comments \cup
          { [ id |-> seq.comment, author_id |-> u, recipe_id |-> id,
              comment_text |-> text ] }
    /\ seq' = [seq EXCEPT !.comment = @ + 1]
    /\ UNCHANGED <<recipes, ingredients, ratings, categories, recipe_categories,
                   req, inst, rinst>>
    /\ resp' = [ op |-> "insert", table |-> "Comment" ]

-----------------------------------------------------------------------------
(* Recipe.edit_recipe. *)

EditArgs ==
    [ new_title : {"", "Crepes", "Waffles"},
      new_description : {"", "golden"},
      new_directions : {"", "whisk"},
      new_minutes_to_make : {PyInt(20), PyInt(0), PyInt(-5), PyFloat(20)},
      new_recipe_pic : {"p1"} ]

\* recipe = Recipe.objects.get(pk=recipe_id): the instance a caller edits.
LoadRecipe(id) ==
    /\ id \in Ids(recipes)
    /\ inst' = CHOOSE row \in recipes : row.id = id
    /\ resp' = [ op |-> "get", id |-> id ]
    /\ UNCHANGED <<db, req, rinst>>

\* The body of edit_recipe up to self.save(): each argument is checked and
\* assigned in turn, and the first invalid one raises ValueError.  The result
\* is the instance as the call leaves it and the exception raised ("" when
\* none).
EditFieldsNoDirections(self, a) ==
    IF ~(Len(a.new_title) >= 1) \/ ~(Len(a.new_description) >= 1)
         \/ ~(Len(a.new_directions) >= 1)
         \/ ~(a.new_minutes_to_make.type = "int" /\ a.new_minutes_to_make.val >= 1)
    THEN [ obj |-> self, exc |-> "ValueError" ]
    ELSE [ obj |-> [ self EXCEPT !.title = a.new_title,
                                 !.description = a.new_description,
                                 !.minutes_to_make = a.new_minutes_to_make.val,
                                 !.recipe_picture = a.new_recipe_pic ],
           exc |-> "" ]
EditFields(self, a) ==
    IF ~(Len(a.new_title) >= 1)
    THEN [ obj |-> self, exc |-> "ValueError" ]
    ELSE LET s1 == [ self EXCEPT !.title = a.new_title ]
         IN IF ~(Len(a.new_description) >= 1)
            THEN [ obj |-> s1, exc |-> "ValueError" ]
            ELSE LET s2 == [ s1 EXCEPT !.description = a.new_description ]
                 IN IF ~(Len(a.new_directions) >= 1)
                    THEN [ obj |-> s2, exc |-> "ValueError" ]
                    ELSE LET s3 == [ s2 EXCEPT !.directions = a.new_directions ]
                         IN IF ~(/\ a.new_minutes_to_make.type = "int"
                                 /\ a.new_minutes_to_make.val >= MinMinutes)
                            THEN [ obj |-> s3, exc |-> "ValueError" ]
                            ELSE [ obj |-> [ s3 EXCEPT
                                       !.minutes_to_make = a.new_minutes_to_make.val,
                                       !.recipe_picture = a.new_recipe_pic ],
                                   exc |-> "" ]

\* self.save() of a Recipe that has a primary key: the row with that key is
\* replaced, or inserted when no such row is left.  save() runs no
\* validators; the store's unique constraint on title still applies.
SaveInstance(table, obj) ==
    { row \in table : row.id # obj.id } \cup { obj }

\* edit_recipe(new_title, new_description, new_directions,
\*             new_minutes_to_make, new_recipe_pic) on the loaded instance.
EditRecipe(a) ==
    /\ inst # NoInst
    /\ LET res == EditFields(inst, a)
           clash == res.exc = "" /\ ~UniqueTitle(recipes, res.obj.id, res.obj.title)
       IN /\ inst' = res.obj
          /\ recipes' = IF res.exc = "" /\ ~clash
                        THEN SaveInstance(recipes, res.obj) ELSE recipes
          /\ resp' = [ op |-> "edit_recipe", args |-> a, before |-> inst,
                       stored_before |-> recipes,
                       exc |-> IF clash THEN "IntegrityError" ELSE res.exc ]
    /\ UNCHANGED <<ingredients, comments, ratings, categories, recipe_categories,
                   seq, req, rinst>>

-----------------------------------------------------------------------------
(* Rating.update_rating. *)

RateInputs ==
    { PyInt(n) : n \in {MinRating - 1, MinRating, 3, MaxRating, MaxRating + 1} }
        \cup { PyFloat(3), PyStr(3), [type |-> "bool", val |-> 1] }

\* Rating(author_id=..., recipe_id=..., rating=...) created through a
\* validated form: the validators of the rating field hold of the value.
AddRating(u, id, v) ==
    /\ Cardinality(ratings) < MaxRatings
    /\ v >= MinRating
    /\ v <= MaxRating
    /\ ForeignKeyOk(recipes, id)
    /\ ratings' = ratings \cup
          { [ id |-> seq.rating, author_id |-> u, recipe_id |-> id, rating |-> v ] }
    /\ seq' = [seq EXCEPT !.rating = @ + 1]
    /\ UNCHANGED <<recipes, ingredients, comments, categories, recipe_categories,
                   req, inst, rinst>>
    /\ resp' = [ op |-> "insert", table |-> "Rating" ]

\* The Rating instance a caller of update_rating holds.
LoadRating(id) ==
    /\ id \in Ids(ratings)
    /\ rinst' = CHOOSE row \in ratings : row.id = id
    /\ resp' = [ op |-> "get", id |-> id ]
    /\ UNCHANGED <<db, req, inst>>

\* The body of update_rating: the instance as the call leaves it and the
\* exception raised ("" when none).
UpdateFieldsNoUpperBound(self, new_rate) ==
    IF new_rate.type # "int" \/ new_rate.val < 1
    THEN [ obj |-> self, exc |-> "ValueError" ]
    ELSE [ obj |-> [ self EXCEPT !.rating = new_rate.val ], exc |-> "" ]
UpdateFields(self, new_rate) ==
    IF new_rate.type # "int" \/ new_rate.val > MaxRating \/ new_rate.val < MinRating
    THEN [ obj |-> self, exc |-> "ValueError" ]
    ELSE [ obj |-> [ self EXCEPT !.rating = new_rate.val ], exc |-> "" ]

\* update_rating(new_rate) on the loaded instance; nothing is saved.
UpdateRating(new_rate) ==
    /\ rinst # NoInst
    /\ LET res == UpdateFields(rinst, new_rate)
       IN /\ rinst' = res.obj
          /\ resp' = [ op |-> "update_rating", new_rate |-> new_rate,
                       before |-> rinst, exc |-> res.exc ]
    /\ UNCHANGED <<db, req, inst>>

\* The caller's rating.save() after update_rating.
PersistRating ==
    /\ rinst # NoInst
    /\ ForeignKeyOk(recipes, rinst.recipe_id)
    /\ ratings' = SaveInstance(ratings, rinst)
    /\ resp' = [ op |-> "save", id |-> rinst.id ]
    /\ UNCHANGED <<recipes, ingredients, comments, categories, recipe_categories,
                   seq, req, inst, rinst>>

-----------------------------------------------------------------------------
(* Categories and the listing view views.recipes. *)

CategoryNames == {"Dessert"}
CategoryNameMaxLength == 16

\* What request.GET.get("category") can be: absent, the remove_filter
\* marker, or a name.
SelectedCategories == {"", "remove_filter", "Vegan"} \cup CategoryNames

\* Category(category_name=name).save(); category_name is unique.
AddCategory(name) ==
    /\ name \notin categories
    /\ Len(name) <= CategoryNameMaxLength
    /\ categories' = categories \cup {name}
    /\ UNCHANGED <<recipes, ingredients, comments, ratings, recipe_categories,
                   seq, req, inst, rinst>>
    /\ resp' = [ op |-> "insert", table |-> "Category" ]

\* recipe.categories.add(category)
TagRecipe(id, name) ==
    /\ Cardinality(recipe_categories) < MaxTags
    /\ id \in Ids(recipes)
    /\ name \in categories
    /\ <<id, name>> \notin recipe_categories
    /\ recipe_categories' = recipe_categories \cup { <<id, name>> }
    /\ UNCHANGED <<recipes, ingredients, comments, ratings, categories,
                   seq, req, inst, rinst>>
    /\ resp' = [ op |-> "insert", table |-> "Recipe_categories" ]

RECURSIVE SumOfRatings(_)
SumOfRatings(rows) ==
    IF rows = {} THEN 0
    ELSE LET row == CHOOSE x \in rows : TRUE
         IN row.rating + SumOfRatings(rows \ {row})

\* annotate(recipe_rating=Avg("rating__rating")): the mean of the ratings
\* joined to the recipe, as the fraction num/den, and NULL when none is.
Avg(table, id) ==
    LET rows == { row \in table : row.recipe_id = id }
    IN [ null |-> rows = {}, num |-> SumOfRatings(rows),
         den |-> IF rows = {} THEN 1 ELSE Cardinality(rows) ]

\* Whether a row with annotation a comes strictly before one with b under
\* ORDER BY recipe_rating DESC.  Where NULL sorts is the store's choice
\* (nulls_first).
Precedes(a, b, nulls_first) ==
    IF a.null /\ b.null THEN FALSE
    ELSE IF a.null THEN nulls_first
    ELSE IF b.null THEN ~nulls_first
    ELSE a.num * b.den > b.num * a.den

RECURSIVE InsertRow(_, _, _)
InsertRow(sorted, x, nulls_first) ==
    IF sorted = <<>> THEN <<x>>
    ELSE IF Precedes(x.recipe_rating, Head(sorted).recipe_rating, nulls_first)
         THEN <<x>> \o sorted
         ELSE <<Head(sorted)>> \o InsertRow(Tail(sorted), x, nulls_first)

\* order_by("-recipe_rating") over the rows in the order the store scans
\* them: rows of equal annotation keep the scan order.
NoOrderBy(rows, nulls_first) == rows
RECURSIVE OrderByDescending(_, _)
OrderByDescending(rows, nulls_first) ==
    IF rows = <<>> THEN <<>>
    ELSE InsertRow(OrderByDescending(Tail(rows), nulls_first), Head(rows), nulls_first)

\* The orders in which the store may scan a table.
ScanOrders(table) ==
    LET n == Cardinality(table)
    IN { s \in [1..n -> Ids(table)] : \A i, j \in 1..n : i # j => s[i] # s[j] }

\* Recipe.objects.annotate(recipe_rating=Avg("rating__rating"))
\*               .order_by("-recipe_rating")
AnnotatedListing(scan, nulls_first) ==
    OrderByDescending(
        [ i \in 1..Len(scan) |->
            [ id |-> scan[i], recipe_rating |-> Avg(ratings, scan[i]) ] ],
        nulls_first)

\* views.recipes(request) with ?category=selected.  The Category model
\* defines no get_recipes_by_category, so the filtered branch ends in
\* AttributeError.
ListRecipes(selected) ==
    /\ \E scan \in ScanOrders(recipes), nulls_first \in BOOLEAN :
          resp' =
            IF selected = ""
            THEN [ op |-> "recipes", selected |-> selected, outcome |-> "ok",
                   recipes_list |-> AnnotatedListing(scan, nulls_first) ]
            ELSE IF selected = "remove_filter" \/ selected \notin categories
            THEN [ op |-> "recipes", selected |-> selected,
                   outcome |-> "redirect", recipes_list |-> <<>> ]
            ELSE [ op |-> "recipes", selected |-> selected,
                   outcome |-> "AttributeError", recipes_list |-> <<>> ]
    /\ UNCHANGED <<db, req, inst, rinst>>

-----------------------------------------------------------------------------
(* Specifications. *)

EmptyStore ==
    /\ recipes = {}
    /\ ingredients = {}
    /\ comments = {}
    /\ ratings = {}
    /\ categories = {}
    /\ recipe_categories = {}
    /\ seq = [ recipe |-> 1, ingredient |-> 1, rating |-> 1, comment |-> 1 ]

NoCalls ==
    /\ req = [ r \in Requests |-> IdleRequest ]
    /\ inst = NoInst
    /\ rinst = NoInst
    /\ resp = NoResp

ValidForm(title) ==
    [ title |-> title, description |-> "fluffy", directions |-> "mix",
      minutes_to_make |-> 10, recipe_picture |-> "p0",
      ingredients |-> << [ amount |-> 50, measurement_unit |-> "Whole",
                           description |-> "flour" ] >> ]

\* The store after alice has created Pancakes and bob Waffles, one
\* ingredient each.
SeededStore ==
    /\ recipes = { RecipeOfForm(ValidForm("Pancakes"), "alice", 1),
                   RecipeOfForm(ValidForm("Waffles"), "bob", 2) }
    /\ ingredients = { [ id |-> i, recipe_id |-> i, amount |-> 50,
                         measurement_unit |-> "Whole", description |-> "flour" ]
                       : i \in {1, 2} }
    /\ comments = {}
    /\ ratings = { [ id |-> row.id ] @@ SeedRating(row) : row \in recipes }
    /\ categories = {}
    /\ recipe_categories = {}
    /\ seq = [ recipe |-> 3, ingredient |-> 3, rating |-> 3, comment |-> 1 ]

MoreForms == { ValidForm("Crepes") }

\* Concurrent create_recipe requests on an empty store.
Init == EmptyStore /\ NoCalls

Next ==
    \/ \E r \in Requests : Validate(r, CreateForms)
    \/ \E r \in Requests : SaveRecipe(r)
    \/ \E r \in Requests : SaveIngredient(r)
    \/ \E r \in Requests : SaveSeedRating(r)
    \/ \E r \in Requests : PersistenceFails(r)

Spec == Init /\ [][Next]_vars

\* Deletions and comments beside create_recipe requests.
InitCascade == SeededStore /\ NoCalls

NextCascade ==
    \/ \E r \in Requests : Validate(r, MoreForms)
    \/ \E r \in Requests : SaveRecipe(r)
    \/ \E r \in Requests : SaveIngredient(r)
    \/ \E r \in Requests : SaveSeedRating(r)
    \/ \E id \in Ids(recipes) : DeleteRecipe(id)
    \/ \E id \in Ids(recipes) : AddComment("bob", id, "yum")

SpecCascade == InitCascade /\ [][NextCascade]_vars

\* Callers of edit_recipe.
InitEdit == SeededStore /\ NoCalls

NextEdit ==
    \/ \E id \in Ids(recipes) : LoadRecipe(id)
    \/ \E a \in EditArgs : EditRecipe(a)
    \/ \E id \in Ids(recipes) : DeleteRecipe(id)

SpecEdit == InitEdit /\ [][NextEdit]_vars

\* Callers of update_rating.
InitRating == SeededStore /\ NoCalls

NextRating ==
    \/ \E id \in Ids(ratings) : LoadRating(id)
    \/ \E v \in RateInputs : UpdateRating(v)
    \/ PersistRating

SpecRating == InitRating /\ [][NextRating]_vars

\* The listing view beside ratings, categories and a creation in flight.
InitList == SeededStore /\ NoCalls

NextList ==
    \/ Validate(1, MoreForms)
    \/ SaveRecipe(1)
    \/ SaveIngredient(1)
    \/ SaveSeedRating(1)
    \/ \E id \in Ids(recipes), v \in {3, 4} : AddRating("bob", id, v)
    \/ \E name \in CategoryNames : AddCategory(name)
    \/ \E id \in Ids(recipes), name \in categories : TagRecipe(id, name)
    \/ \E selected \in SelectedCategories : ListRecipes(selected)

SpecList == InitList /\ [][NextList]_vars

-----------------------------------------------------------------------------
(* Properties. *)

Children == ingredients \cup comments \cup ratings

RatingsOf(id) == { row \in ratings : row.recipe_id = id }

\* The sum of the ratings of a recipe, counted value by value.
TotalOf(id) ==
    LET n(v) == Cardinality({ row \in RatingsOf(id) : row.rating = v })
    IN n(1) + 2 * n(2) + 3 * n(3) + 4 * n(4) + 5 * n(5)

EditArgsInvalid(a) ==
    \/ Len(a.new_title) = 0
    \/ Len(a.new_description) = 0
    \/ Len(a.new_directions) = 0
    \/ a.new_minutes_to_make.type # "int"
    \/ a.new_minutes_to_make.val < 1

EditApplied(a) ==
    /\ inst.title = a.new_title
    /\ inst.description = a.new_description
    /\ inst.directions = a.new_directions
    /\ inst.minutes_to_make = a.new_minutes_to_make.val
    /\ inst.recipe_picture = a.new_recipe_pic

SubmissionInvalid(f, table) ==
    \/ Len(f.title) = 0
    \/ Len(f.title) > 64
    \/ \E row \in table : row.title = f.title
    \/ f.minutes_to_make < 1
    \/ Len(f.ingredients) = 0
    \/ \E n \in 1..Len(f.ingredients) : f.ingredients[n].amount < 1

\* C1: an edit_recipe call with an invalid argument raises ValueError and
\* leaves every field of the recipe, in memory and in the store, as it was
\* before the call.
C1_EditIsAllOrNothing ==
    (resp.op = "edit_recipe" /\ EditArgsInvalid(resp.args)) =>
        /\ resp.exc = "ValueError"
        /\ inst = resp.before
        /\ recipes = resp.stored_before

\* C2: every persisted Recipe has a persisted Ingredient referencing it and
\* its seed Rating (value 5, by the recipe's author), in every reachable
\* state.
C2_NoPartialRecipe ==
    \A row \in recipes :
        /\ \E i \in ingredients : i.recipe_id = row.id
        /\ \E x \in ratings : /\ x.recipe_id = row.id
                              /\ x.rating = 5
                              /\ x.author_id = row.author_id

\* C3: no two persisted Recipes have the same title, and of the creation
\* requests that carry one title at most one gets its Recipe inserted, also
\* when several of them pass validation before any inserts.
C3_TitlesUnique ==
    /\ \A a, b \in recipes : a.id # b.id => a.title # b.title
    /\ \A r1, r2 \in Requests :
          (r1 # r2 /\ req[r1].rid # 0 /\ req[r2].rid # 0)
              => req[r1].form.title # req[r2].form.title

C3_Witness ==
    \E r1, r2 \in Requests :
        /\ r1 # r2
        /\ req[r1].form.title = req[r2].form.title
        /\ req[r1].pc = "done"
        /\ req[r2].pc = "error"
        /\ req[r2].err = "IntegrityError"

\* C4: a submission whose Recipe fields are invalid, or that has an invalid
\* Ingredient, or no Ingredient at all, is rejected, the Recipe, Ingredient
\* and Rating tables after the request are those before it, and a rejected
\* request does nothing more.
C4_RejectedCreationPersistsNothing ==
    [][ \A r \in Requests :
          /\ (/\ req[r].pc = "idle"
              /\ req'[r].pc # "idle"
              /\ SubmissionInvalid(resp'.form, recipes))
                => /\ req'[r].pc = "rejected"
                   /\ recipes' = recipes
                   /\ ingredients' = ingredients
                   /\ ratings' = ratings
          /\ req[r].pc = "rejected" => req'[r] = req[r] ]_vars

C4_Witness ==
    /\ resp.op = "create_recipe"
    /\ resp.outcome = "rejected"
    /\ Len(resp.form.ingredients) = 0
    /\ Len(resp.form.title) \in 1..64
    /\ resp.form.minutes_to_make >= 1
    /\ recipes # {}
    /\ \A row \in recipes : row.title # resp.form.title

\* C5: the step that completes a creation request leaves the Recipe
\* persisted with the submitted fields, one Ingredient row per submitted
\* ingredient, each referencing the Recipe, and adds exactly one Rating: of
\* that Recipe, of value 5, by the Recipe's author; no other step of the
\* request adds a Rating.
C5_SuccessfulCreationPersistsAll ==
    [][ \A r \in Requests :
          /\ (req[r].pc = "save_rating" /\ req'[r].pc = "done") =>
                LET f == req[r].form
                    id == req[r].rid
                    rows == { i \in ingredients' : i.recipe_id = id }
                IN /\ \E row \in recipes' :
                         /\ row.id = id
                         /\ row.title = f.title
                         /\ row.minutes_to_make = f.minutes_to_make
                         /\ row.author_id = UserOf(r)
                   /\ Cardinality(rows) = Len(f.ingredients)
                   /\ \A n \in 1..Len(f.ingredients) :
                         \E i \in rows : /\ i.amount = f.ingredients[n].amount
                                         /\ i.description = f.ingredients[n].description
                   /\ RatingsOf(id) = {}
                   /\ ratings \subseteq ratings'
                   /\ Cardinality(ratings' \ ratings) = 1
                   /\ \A x \in ratings' \ ratings :
                         /\ x.recipe_id = id
                         /\ x.rating = 5
                         /\ x.author_id = UserOf(r)
          /\ (req'[r] # req[r] /\ req[r].pc # "save_rating") => ratings' = ratings
      ]_vars

C5_Witness ==
    \E r \in Requests :
        /\ req[r].pc = "done"
        /\ Len(req[r].form.ingredients) = 2
        /\ Cardinality({ i \in ingredients : i.recipe_id = req[r].rid }) = 2
        /\ \E x \in ratings : x.recipe_id = req[r].rid

\* C6: update_rating with a value that is no int or lies outside 1..5 raises
\* ValueError and leaves the rating's value as it was; with an int in 1..5
\* it succeeds and the value becomes new_rate; so every rating, in memory
\* and stored, stays in 1..5.
C6_UpdateRatingGuarded ==
    /\ resp.op = "update_rating" =>
          IF resp.new_rate.type = "int" /\ resp.new_rate.val \in 1..5
          THEN resp.exc = "" /\ rinst.rating = resp.new_rate.val
          ELSE resp.exc = "ValueError" /\ rinst = resp.before
    /\ rinst # NoInst => rinst.rating \in 1..5
    /\ \A row \in ratings : row.rating \in 1..5

C6_Witness ==
    /\ resp.op = "update_rating"
    /\ resp.new_rate = PyInt(6)
    /\ resp.exc = "ValueError"
    /\ rinst.rating = 3
    /\ \E row \in ratings : row.id = rinst.id /\ row.rating = 3

\* C7 as claimed: an edit_recipe call with valid arguments succeeds, the
\* recipe's fields equal the arguments, and the stored row equals them too.
C7_ValidEditSucceeds ==
    (resp.op = "edit_recipe" /\ ~EditArgsInvalid(resp.args)) =>
        /\ resp.exc = ""
        /\ EditApplied(resp.args)
        /\ inst \in recipes

\* C7, amended: an edit_recipe call with valid arguments whose title no
\* other persisted Recipe has succeeds, the recipe's fields equal the
\* arguments and the stored row equals them, the other rows untouched; when
\* another persisted Recipe has the title, the save raises IntegrityError
\* and the store is unchanged.
C7_ValidEditWithFreeTitleSucceeds ==
    (resp.op = "edit_recipe" /\ ~EditArgsInvalid(resp.args)) =>
        IF \E row \in resp.stored_before :
              row.id # resp.before.id /\ row.title = resp.args.new_title
        THEN resp.exc = "IntegrityError" /\ recipes = resp.stored_before
        ELSE /\ resp.exc = ""
             /\ EditApplied(resp.args)
             /\ inst.id = resp.before.id
             /\ inst.author_id = resp.before.author_id
             /\ inst \in recipes
             /\ \A row \in recipes : row.id = inst.id => row = inst
             /\ { row \in recipes : row.id # inst.id }
                    = { row \in resp.stored_before : row.id # inst.id }

C7_Witness ==
    /\ resp.op = "edit_recipe"
    /\ ~EditArgsInvalid(resp.args)
    /\ resp.exc = ""
    /\ resp.before \in resp.stored_before
    /\ resp.before.title # resp.args.new_title
    /\ resp.before.directions # resp.args.new_directions
    /\ inst \in recipes

\* C8: the listing holds every recipe once, and of two listed recipes that
\* have ratings the earlier one has a mean rating at least that of the
\* later one.
C8_ListingSortedByMean ==
    (resp.op = "recipes" /\ resp.outcome = "ok") =>
        LET l == resp.recipes_list
        IN /\ Len(l) = Cardinality(recipes)
           /\ { l[i].id : i \in 1..Len(l) } = Ids(recipes)
           /\ \A i, j \in 1..Len(l) :
                 (/\ i < j
                  /\ RatingsOf(l[i].id) # {}
                  /\ RatingsOf(l[j].id) # {})
                    => TotalOf(l[i].id) * Cardinality(RatingsOf(l[j].id))
                         >= TotalOf(l[j].id) * Cardinality(RatingsOf(l[i].id))

C8_Witness ==
    /\ resp.op = "recipes"
    /\ resp.outcome = "ok"
    /\ Len(resp.recipes_list) = 3
    /\ Cardinality(RatingsOf(resp.recipes_list[1].id)) = 1
    /\ Cardinality(RatingsOf(resp.recipes_list[2].id)) = 2
    /\ TotalOf(resp.recipes_list[2].id) = 9
    /\ TotalOf(resp.recipes_list[3].id) = 8
    /\ Cardinality(RatingsOf(resp.recipes_list[3].id)) = 2

\* C9: a listing request that names an existing category returns exactly
\* the recipes whose categories contain it.
C9_CategoryFilterExact ==
    (resp.op = "recipes" /\ resp.selected \in categories) =>
        /\ resp.outcome = "ok"
        /\ { resp.recipes_list[i].id : i \in 1..Len(resp.recipes_list) }
              = { id \in Ids(recipes) : <<id, resp.selected>> \in recipe_categories }

\* C10: every persisted Ingredient, Comment and Rating references a
\* persisted Recipe, and after a Recipe is deleted none references it.
C10_CascadeDelete ==
    /\ \A row \in Children : row.recipe_id \in Ids(recipes)
    /\ resp.op = "delete" => \A row \in Children : row.recipe_id # resp.id

C10_Witness ==
    /\ resp.op = "delete"
    /\ resp.deleted.Ingredient >= 1
    /\ resp.deleted.Comment >= 1
    /\ resp.deleted.Rating >= 1
    /\ recipes # {}

=============================================================================
